---- MODULE Spec2Model ----
(***************************************************************************)
(* A model of parsy (src/src/parsy/__init__.py): parsers are values built  *)
(* by the combinator methods, invoked on a stream at an index, and return  *)
(* the 3-tuple (status, next_index, value).                                *)
(*                                                                         *)
(* A stream is a sequence of one-character strings; Python index i is the  *)
(* element i+1 of the sequence.  Python values are tagged records.         *)
(***************************************************************************)
EXTENDS Integers, Sequences, FiniteSets, TLC

VARIABLES parser, depth, stream, start, op, out

vars == <<parser, depth, stream, start, op, out>>

(***************************************************************************)
(* Bounds of the model.                                                    *)
(***************************************************************************)
MaxLen == 3
MaxDepth == 2
MaxTimes == 3

(***************************************************************************)
(* Python values.                                                          *)
(***************************************************************************)
StrV(s) == [t |-> "str", s |-> s]
IntV(n) == [t |-> "int", n |-> n]
NoneV == [t |-> "none"]
ListV(l) == [t |-> "list", l |-> l]
TupleV(l) == [t |-> "tuple", l |-> l]

Min(a, b) == IF a <= b THEN a ELSE b

\* stream[lo:hi] for 0 <= lo, with Python's clipping of hi to len(stream)
Slice(s, lo, hi) == SubSeq(s, lo + 1, Min(hi, Len(s)))

isalpha(c) == c \in {"a", "b", "f", "o", "r"}
isdigit(c) == c \in {"0", "1"}

(***************************************************************************)
(* What a call can do: return the 3-tuple, raise, or never return.         *)
(***************************************************************************)
Ret(status, idx, value) ==
    [kind |-> "return", status |-> status, index |-> idx, value |-> value]
Raise(exc) == [kind |-> "raise", exc |-> exc]
Diverge == [kind |-> "diverge"]

(***************************************************************************)
(* line_info_at(stream, index)                                             *)
(***************************************************************************)
RECURSIVE count(_, _)
count(prefix, c) ==
    IF prefix = <<>> THEN 0
    ELSE count(Tail(prefix), c) + (IF Head(prefix) = c THEN 1 ELSE 0)

\* Python's rfind: the largest 0-based offset of c in prefix, -1 if none
rfind(prefix, c) ==
    LET hits == {k \in 1..Len(prefix) : prefix[k] = c}
    IN  IF hits = {} THEN -1
        ELSE (CHOOSE k \in hits : \A j \in hits : j <= k) - 1

\* line_info_at with the column counted from the newline itself
line_info_at_from_newline(s, idx) ==
    IF idx > Len(s) THEN Raise("invalid index")
    ELSE LET prefix == Slice(s, 0, idx)
             line == count(prefix, "\n")
             last_nl == rfind(prefix, "\n")
             col == IF last_nl >= 0 THEN idx - last_nl ELSE idx
         IN  [kind |-> "value", value |-> TupleV(<<IntV(line), IntV(col)>>)]

line_info_at(s, idx) ==
    IF idx > Len(s) THEN Raise("invalid index")
    ELSE LET prefix == Slice(s, 0, idx)
             line == count(prefix, "\n")
             last_nl == rfind(prefix, "\n")
             col == IF last_nl >= 0 THEN idx - 1 - last_nl ELSE idx
         IN  [kind |-> "value", value |-> TupleV(<<IntV(line), IntV(col)>>)]

(***************************************************************************)
(* Parsers.  A Parser wraps a function of (stream, index); here it is the  *)
(* term that names that function, and Run below evaluates it.              *)
(***************************************************************************)
success(val) == [op |-> "success", val |-> val]
fail(message) == [op |-> "fail", message |-> message]
string(s) == [op |-> "string", s |-> s]
\* a compiled pattern: its source text, and the language cls{min,} it matches
regex(exp) == [op |-> "regex", exp |-> exp]
item_matcher(fn, message) == [op |-> "item_matcher", fn |-> fn, message |-> message]
eof == [op |-> "eof"]
index == [op |-> "index"]
line_info == [op |-> "line_info"]

DigitsPattern == [pattern |-> <<"[", "0", "-", "9", "]", "+">>, cls |-> "isdigit", min |-> 1]
letter == item_matcher("isalpha", StrV(<<"a", " ", "l", "e", "t", "t", "e", "r">>))
digit == item_matcher("isdigit", StrV(<<"a", " ", "d", "i", "g", "i", "t">>))

\* the closures the combinators hand to bind, and those of the host grammar
ThenFn(other) == [f |-> "then", other |-> other]
MapFn(map_fn) == [f |-> "map", map_fn |-> map_fn]
SkipFn(other) == [f |-> "skip", other |-> other]
AddFn(other) == [f |-> "add", other |-> other]

bind(self, bind_fn) == [op |-> "bound_parser", self |-> self, bind_fn |-> bind_fn]
map(self, map_fn) == bind(self, MapFn(map_fn))
then(self, other) == bind(self, ThenFn(other))
skip(self, other) == bind(self, SkipFn(other))
result(self, res) == then(self, success(res))
many(self) == [op |-> "many_parser", self |-> self]
times(self, min, max) == [op |-> "times_parser", self |-> self, min |-> min, max |-> max]
or(self, other) == [op |-> "or_parser", self |-> self, other |-> other]
desc(self, description) == or(self, fail(description))
add(self, other) == bind(self, AddFn(other))
generated(fn) == [op |-> "generated", fn |-> fn]
generate(fn) == desc(generated(fn), fn.name)

\* res + res2 of Python
PyAdd(a, b) ==
    IF a.t # b.t \/ a.t = "none" THEN Raise("TypeError")
    ELSE [kind |-> "value",
          value |-> CASE a.t = "str" -> StrV(a.s \o b.s)
                      [] a.t = "int" -> IntV(a.n + b.n)
                      [] a.t = "list" -> ListV(a.l \o b.l)
                      [] a.t = "tuple" -> TupleV(a.l \o b.l)]

\* map_fn(res)
CallMapFn(map_fn, res) ==
    CASE map_fn.fn = "wrap" -> [kind |-> "value", value |-> ListV(<<res>>)]
      [] map_fn.fn = "add" -> PyAdd(map_fn.res, res)

Wrap == [fn |-> "wrap"]
AddTo(res) == [fn |-> "add", res |-> res]

\* a generator procedure of the host grammar: it yields the parsers of
\* yields in turn, and returns the tuple of what they gave or a parser
Procedure(name, yields, returns) == [name |-> name, yields |-> yields, returns |-> returns]
ReturnsTuple == [kind |-> "tuple"]
ReturnsParser(p) == [kind |-> "parser", parser |-> p]

mark(self) ==
    generate(Procedure(StrV(<<"m", "a", "r", "k", "e", "d">>),
                       <<line_info, self, line_info>>, ReturnsTuple))

\* a closure of the host grammar: lambda v: digit if v == 'a' else eof
HostFn == [f |-> "host"]
\* the closures of a hand-written chain of binds over the parsers rest:
\* lambda v: rest[0].bind(lambda w: ...), the last one giving the final value
ChainFn(rest, acc, returns) == [f |-> "chain", rest |-> rest, acc |-> acc, returns |-> returns]

\* bind_fn(value): the parser the closure gives, unless it raises
Apply(bind_fn, value) ==
    CASE bind_fn.f = "then" -> [kind |-> "parser", parser |-> bind_fn.other]
      [] bind_fn.f = "map" ->
            LET v == CallMapFn(bind_fn.map_fn, value)
            IN  IF v.kind = "raise" THEN v
                ELSE [kind |-> "parser", parser |-> success(v.value)]
      [] bind_fn.f = "skip" -> [kind |-> "parser", parser |-> result(bind_fn.other, value)]
      [] bind_fn.f = "add" -> [kind |-> "parser", parser |-> map(bind_fn.other, AddTo(value))]
      [] bind_fn.f = "host" ->
            [kind |-> "parser",
             parser |-> IF value = StrV(<<"a">>) THEN digit ELSE eof]
      [] bind_fn.f = "chain" ->
            LET acc == Append(bind_fn.acc, value)
            IN  [kind |-> "parser",
                 parser |-> IF bind_fn.rest # <<>>
                            THEN bind(Head(bind_fn.rest),
                                      ChainFn(Tail(bind_fn.rest), acc, bind_fn.returns))
                            ELSE IF bind_fn.returns.kind = "parser"
                                 THEN bind_fn.returns.parser
                                 ELSE success(TupleV(acc))]

Pred(fn, c) ==
    CASE fn = "isalpha" -> isalpha(c)
      [] fn = "isdigit" -> isdigit(c)

\* exp.match(stream, index).end() for the pattern cls{min,}, -1 for no match
RECURSIVE MatchRun(_, _, _)
MatchRun(cls, s, idx) ==
    IF idx < Len(s) /\ Pred(cls, s[idx + 1]) THEN MatchRun(cls, s, idx + 1) ELSE idx

MatchEnd(exp, s, idx) ==
    LET end == MatchRun(exp.cls, s, idx)
    IN  IF end - idx >= exp.min THEN end ELSE -1

(***************************************************************************)
(* The functions the primitive parsers wrap.                               *)
(***************************************************************************)
success_fn(val, s, idx) == Ret(TRUE, idx, val)

fail_fn(message, s, idx) == Ret(FALSE, idx, message)

\* string_parser comparing only what is left of the stream with the start of s0
string_parser_prefix(s0, s, idx) ==
    LET rest == Slice(s, idx, idx + Len(s0))
    IN  IF rest = SubSeq(s0, 1, Len(rest))
        THEN Ret(TRUE, idx + Len(s0), StrV(s0))
        ELSE Ret(FALSE, idx, StrV(s0))

string_parser(s0, s, idx) ==
    IF Slice(s, idx, idx + Len(s0)) = s0
    THEN Ret(TRUE, idx + Len(s0), StrV(s0))
    ELSE Ret(FALSE, idx, StrV(s0))

regex_parser(exp, s, idx) ==
    LET end == MatchEnd(exp, s, idx)
    IN  IF end >= 0 THEN Ret(TRUE, end, StrV(Slice(s, idx, end)))
        ELSE Ret(FALSE, idx, StrV(exp.pattern))

matcher(fn, message, s, idx) ==
    IF idx < Len(s) /\ Pred(fn, s[idx + 1])
    THEN Ret(TRUE, idx + 1, StrV(<<s[idx + 1]>>))
    ELSE Ret(FALSE, idx, message)

eof_fn(s, idx) ==
    IF idx < Len(s) THEN Ret(FALSE, idx, StrV(<<"E", "O", "F">>))
    ELSE Ret(TRUE, idx, NoneV)

index_fn(s, idx) == Ret(TRUE, idx, IntV(idx))

line_info_fn(s, idx) ==
    LET v == line_info_at(s, idx)
    IN  IF v.kind = "raise" THEN v ELSE Ret(TRUE, idx, v.value)

(***************************************************************************)
(* Run(p, s, idx): the call p(stream, index).                              *)
(***************************************************************************)
RECURSIVE Run(_, _, _)
RECURSIVE many_parser(_, _, _, _)
RECURSIVE times_required(_, _, _, _, _)
RECURSIVE times_optional(_, _, _, _, _)
RECURSIVE generated_loop(_, _, _, _, _)

\* bound_parser running the next parser from the index it was itself given
bound_parser_same_index(self, bind_fn, s, idx) ==
    LET r == Run(self, s, idx)
    IN  IF r.kind # "return" THEN r
        ELSE IF r.status
             THEN LET next_parser == Apply(bind_fn, r.value)
                  IN  IF next_parser.kind = "raise" THEN next_parser
                      ELSE Run(next_parser.parser, s, idx)
             ELSE Ret(FALSE, idx, r.value)

bound_parser(self, bind_fn, s, idx) ==
    LET r == Run(self, s, idx)
    IN  IF r.kind # "return" THEN r
        ELSE IF r.status
             THEN LET next_parser == Apply(bind_fn, r.value)
                  IN  IF next_parser.kind = "raise" THEN next_parser
                      ELSE Run(next_parser.parser, s, r.index)
             ELSE Ret(FALSE, idx, r.value)

\* many_parser with an if for the while: one match at most
many_parser_once(self, s, idx, aggregate) ==
    LET r == Run(self, s, idx)
    IN  IF r.kind # "return" THEN r
        ELSE IF r.status THEN Ret(TRUE, r.index, ListV(Append(aggregate, r.value)))
             ELSE Ret(TRUE, idx, ListV(aggregate))

\* the while True loop; self is a pure function, so a success that leaves
\* the index where it was repeats forever
many_parser(self, s, idx, aggregate) ==
    LET r == Run(self, s, idx)
    IN  IF r.kind # "return" THEN r
        ELSE IF r.status
             THEN IF r.index = idx THEN Diverge
                  ELSE many_parser(self, s, r.index, Append(aggregate, r.value))
             ELSE Ret(TRUE, idx, ListV(aggregate))

\* for times in range(min, max), n iterations left
times_optional(self, s, idx, aggregate, n) ==
    IF n <= 0 THEN Ret(TRUE, idx, ListV(aggregate))
    ELSE LET r == Run(self, s, idx)
         IN  IF r.kind # "return" THEN r
             ELSE IF r.status
                  THEN times_optional(self, s, r.index, Append(aggregate, r.value), n - 1)
                  ELSE Ret(TRUE, idx, ListV(aggregate))

\* for times in range(0, min), n iterations left, then m optional ones
times_required(self, s, idx, aggregate, nm) ==
    IF nm[1] <= 0 THEN times_optional(self, s, idx, aggregate, nm[2])
    ELSE LET r == Run(self, s, idx)
         IN  IF r.kind # "return" THEN r
             ELSE IF r.status
                  THEN times_required(self, s, r.index, Append(aggregate, r.value),
                                      <<nm[1] - 1, nm[2]>>)
                  ELSE Ret(FALSE, r.index, r.value)

\* times_parser with max taken as inclusive: range(min, max + 1)
times_parser_inclusive(self, min, max, s, idx) ==
    times_required(self, s, idx, <<>>, <<min, max - min + 1>>)

times_parser(self, min, max, s, idx) ==
    times_required(self, s, idx, <<>>, <<min, max - min>>)

\* or_parser running the alternative from where the first one failed
or_parser_no_backtrack(self, other, s, idx) ==
    LET r == Run(self, s, idx)
    IN  IF r.kind # "return" THEN r
        ELSE IF r.status THEN Ret(TRUE, r.index, r.value)
             ELSE Run(other, s, r.index)

or_parser(self, other, s, idx) ==
    LET r == Run(self, s, idx)
    IN  IF r.kind # "return" THEN r
        ELSE IF r.status THEN Ret(TRUE, r.index, r.value)
             ELSE Run(other, s, idx)

\* generated_loop reporting a failure at the index the failing step began at
generated_loop_step_index(fn, s, idx, values, sent) ==
    IF sent = Len(fn.yields)
    THEN [sent |-> sent,
          out |-> IF fn.returns.kind = "parser"
                  THEN Run(fn.returns.parser, s, idx)
                  ELSE Ret(TRUE, idx, TupleV(values))]
    ELSE LET r == Run(fn.yields[sent + 1], s, idx)
         IN  IF r.kind # "return" THEN [sent |-> sent + 1, out |-> r]
             ELSE IF ~r.status
                  THEN [sent |-> sent + 1, out |-> Ret(FALSE, idx, r.value)]
                  ELSE generated_loop(fn, s, r.index, Append(values, r.value), sent + 1)

\* the loop of generated, after sent yields were answered with values;
\* sent counts the parsers the procedure got to yield
generated_loop(fn, s, idx, values, sent) ==
    IF sent = Len(fn.yields)
    THEN [sent |-> sent,
          out |-> IF fn.returns.kind = "parser"
                  THEN Run(fn.returns.parser, s, idx)
                  ELSE Ret(TRUE, idx, TupleV(values))]
    ELSE LET r == Run(fn.yields[sent + 1], s, idx)
         IN  IF r.kind # "return" THEN [sent |-> sent + 1, out |-> r]
             ELSE IF ~r.status
                  THEN [sent |-> sent + 1, out |-> Ret(FALSE, r.index, r.value)]
                  ELSE generated_loop(fn, s, r.index, Append(values, r.value), sent + 1)

Run(p, s, idx) ==
    CASE p.op = "success" -> success_fn(p.val, s, idx)
      [] p.op = "fail" -> fail_fn(p.message, s, idx)
      [] p.op = "string" -> string_parser(p.s, s, idx)
      [] p.op = "regex" -> regex_parser(p.exp, s, idx)
      [] p.op = "item_matcher" -> matcher(p.fn, p.message, s, idx)
      [] p.op = "eof" -> eof_fn(s, idx)
      [] p.op = "index" -> index_fn(s, idx)
      [] p.op = "line_info" -> line_info_fn(s, idx)
      [] p.op = "bound_parser" -> bound_parser(p.self, p.bind_fn, s, idx)
      [] p.op = "many_parser" -> many_parser(p.self, s, idx, <<>>)
      [] p.op = "times_parser" -> times_parser(p.self, p.min, p.max, s, idx)
      [] p.op = "or_parser" -> or_parser(p.self, p.other, s, idx)
      [] p.op = "generated" -> generated_loop(p.fn, s, idx, <<>>, 0).out

(***************************************************************************)
(* The entry points.                                                       *)
(***************************************************************************)
ParseError(expected, s, idx) ==
    [kind |-> "raise", exc |-> "ParseError", expected |-> expected,
     stream |-> s, index |-> idx]

parse_partial(self, s) ==
    LET r == Run(self, s, 0)
    IN  IF r.kind # "return" THEN r
        ELSE IF r.status
             THEN [kind |-> "value",
                   value |-> TupleV(<<r.value, StrV(Slice(s, r.index, Len(s)))>>)]
             ELSE ParseError(r.value, s, r.index)

\* parse without the end-of-input check
parse_no_eof(self, s) ==
    LET r == parse_partial(self, s)
    IN  IF r.kind # "value" THEN r
        ELSE [kind |-> "value", value |-> r.value.l[1]]

parse(self, s) ==
    LET r == parse_partial(skip(self, eof), s)
    IN  IF r.kind # "value" THEN r
        ELSE [kind |-> "value", value |-> r.value.l[1]]

(***************************************************************************)
(* The state machine: the host builds a parser by the combinator methods,  *)
(* then calls it, any number of times, on streams.                         *)
(***************************************************************************)
Alphabet == {"a", "1"}
Inputs == UNION {[1..n -> Alphabet] : n \in 0..MaxLen}
FooBar == <<"f", "o", "o", "\n", "b", "a", "r">>
LocateInputs == UNION {[1..n -> {"a", "b", "\n"}] : n \in 0..MaxLen} \cup {FooBar}

X == StrV(<<"x">>)
Label == StrV(<<"l", "a", "b", "e", "l">>)
ProcName == StrV(<<"p", "r", "o", "c">>)

Primitives ==
    {success(X), string(<<"a">>), string(<<"a", "1">>), regex(DigitsPattern),
     letter, digit, eof, index, line_info}
Operands == {string(<<"a">>), digit, eof}

NoCall == [kind |-> "none"]

Init ==
    /\ parser \in Primitives
    /\ depth = 0
    /\ stream = <<>>
    /\ start = 0
    /\ op = "none"
    /\ out = NoCall

Compose(p) ==
    /\ op = "none"
    /\ depth < MaxDepth
    /\ parser' = p
    /\ depth' = depth + 1
    /\ UNCHANGED <<stream, start, op, out>>

Bind == Compose(bind(parser, HostFn))
Map == Compose(map(parser, Wrap))
Then == \E other \in Operands : Compose(then(parser, other)) \/ Compose(then(other, parser))
Skip == \E other \in Operands : Compose(skip(parser, other))
Result == Compose(result(parser, X))
Add == \E other \in Operands : Compose(add(parser, other))
Or == \E other \in Operands : Compose(or(parser, other)) \/ Compose(or(other, parser))
Desc == Compose(desc(parser, Label))
Many == Compose(many(parser))
Times == \E max \in 0..MaxTimes : \E min \in 0..max : Compose(times(parser, min, max))
Generate ==
    \E other \in Operands :
        \/ Compose(generate(Procedure(ProcName, <<parser, other>>, ReturnsTuple)))
        \/ Compose(generate(Procedure(ProcName, <<other>>, ReturnsParser(parser))))
Mark == Compose(mark(parser))

Call(name, s, idx, o) ==
    /\ op = "none"
    /\ stream' = s
    /\ start' = idx
    /\ op' = name
    /\ out' = o
    /\ UNCHANGED <<parser, depth>>

Invoke == \E s \in Inputs : \E idx \in 0..Len(s) : Call("call", s, idx, Run(parser, s, idx))
Parse == \E s \in Inputs : Call("parse", s, 0, parse(parser, s))
ParsePartial == \E s \in Inputs : Call("parse_partial", s, 0, parse_partial(parser, s))

\* the host drops the outcome; the parser is there for the next call
Discard ==
    /\ op # "none"
    /\ stream' = <<>>
    /\ start' = 0
    /\ op' = "none"
    /\ out' = NoCall
    /\ UNCHANGED <<parser, depth>>

Next ==
    \/ Bind \/ Map \/ Then \/ Skip \/ Result \/ Add \/ Or \/ Desc
    \/ Many \/ Times \/ Generate \/ Mark
    \/ Invoke \/ Parse \/ ParsePartial \/ Discard

Spec == Init /\ [][Next]_vars

(***************************************************************************)
(* The position model on its own: line_info_at called on any stream and    *)
(* index, the one past the end included.                                   *)
(***************************************************************************)
InitLocate ==
    /\ parser = line_info
    /\ depth = 0
    /\ stream = <<>>
    /\ start = 0
    /\ op = "none"
    /\ out = NoCall

Locate ==
    \E s \in LocateInputs : \E idx \in 0..(Len(s) + 1) :
        /\ stream' = s
        /\ start' = idx
        /\ op' = "line_info_at"
        /\ out' = line_info_at(s, idx)
        /\ UNCHANGED <<parser, depth>>

NextLocate == Locate

SpecLocate == InitLocate /\ [][NextLocate]_vars

(***************************************************************************)
(* The claims.                                                             *)
(***************************************************************************)
EOFText == StrV(<<"E", "O", "F">>)

\* what the parser of the state does on its own at the first index
AtZero == Run(parser, stream, 0)

\* C1: parse(p, s) returns v exactly when p, invoked at index 0, succeeds
\* with value v and next_index = len(s); when p fails, or succeeds with input
\* left over, parse raises ParseError.
C1_ParseWholeInput ==
    (op = "parse" /\ AtZero.kind = "return") =>
        IF AtZero.status /\ AtZero.index = Len(stream)
        THEN out = [kind |-> "value", value |-> AtZero.value]
        ELSE out.kind = "raise" /\ out.exc = "ParseError"

C1_Witness ==
    /\ op = "parse"
    /\ out.kind = "value"
    /\ Len(stream) >= 2
    /\ depth >= 1

\* C2 as stated: a ParseError of parse(p, s) carries s and the index and
\* expectation of the first failure: those of p's own failure at index 0
\* (at whatever index j it is reported), or next_index and "EOF" when p
\* succeeds before the end of s.
C2_FirstFailureReported ==
    (op = "parse" /\ AtZero.kind = "return") =>
        /\ ~AtZero.status => out = ParseError(AtZero.value, stream, AtZero.index)
        /\ (AtZero.status /\ AtZero.index < Len(stream)) =>
               out = ParseError(EOFText, stream, AtZero.index)

\* C3 as stated: when p fails at the start index with Failure(j, e),
\* bind(p, f) returns that same Failure(j, e); map, then, skip, result and
\* concat are binds and do the same.
C3_BindPropagatesFailure ==
    (op = "call" /\ parser.op = "bound_parser") =>
        LET r == Run(parser.self, stream, start)
        IN  (r.kind = "return" /\ ~r.status) => out = Ret(FALSE, r.index, r.value)

\* C4: choice(p, q) returns p's result when p succeeds, and otherwise the
\* result of q invoked at the original index, whatever index p failed at;
\* when every alternative of (p | q) | r fails, the failure is r's.
C4_ChoiceBacktracks ==
    (op = "call" /\ parser.op = "or_parser") =>
        LET r == Run(parser.self, stream, start)
        IN  /\ (r.kind = "return" /\ r.status) => out = r
            /\ (r.kind = "return" /\ ~r.status) =>
                   out = Run(parser.other, stream, start)
            /\ (/\ parser.self.op = "or_parser"
                /\ out.kind = "return"
                /\ ~out.status) =>
                   /\ out.index = start
                   /\ out = Run(parser.other, stream, start)

\* p failed further on than where it started, and q was run from the start
C4_Witness ==
    /\ op = "call"
    /\ parser.op = "or_parser"
    /\ LET r == Run(parser.self, stream, start)
       IN  r.kind = "return" /\ ~r.status /\ r.index > start
    /\ out.kind = "return"
    /\ out.status
    /\ out.index > start

\* the parser generate(fn) gives: the loop, described by the procedure's name
IsGenerate(p) ==
    /\ p.op = "or_parser"
    /\ p.self.op = "generated"
    /\ p.other = fail(p.self.fn.name)

\* the first of the yielded parsers to fail, each invoked where the one
\* before it ended: its place k in the procedure and its failure (k = 0 when
\* none fails, or one of them does not return)
RECURSIVE FirstFailure(_, _, _, _)
FirstFailure(yields, s, idx, k) ==
    IF k > Len(yields) THEN [k |-> 0]
    ELSE LET r == Run(yields[k], s, idx)
         IN  IF r.kind # "return" THEN [k |-> 0]
             ELSE IF ~r.status THEN [k |-> k, index |-> r.index, value |-> r.value]
                  ELSE FirstFailure(yields, s, r.index, k + 1)

HandChain(fn) ==
    bind(Head(fn.yields), ChainFn(Tail(fn.yields), <<>>, fn.returns))

RECURSIVE Matches(_, _, _, _, _)
Matches(p, s, idx, cap, values) ==
    IF Len(values) >= cap
    THEN [k |-> Len(values), values |-> values, end |-> idx, stop |-> NoCall]
    ELSE LET r == Run(p, s, idx)
         IN  IF r.kind = "return" /\ r.status
             THEN Matches(p, s, r.index, cap, Append(values, r.value))
             ELSE [k |-> Len(values), values |-> values, end |-> idx, stop |-> r]

\* C7: with k the number of consecutive matches of p from the start index,
\* times(p, min, max) succeeds when k >= min, with the first MIN(k, max)
\* values in order and the index where the last of them ended, and fails
\* when k < min, with the failure of the (k+1)-th invocation of p.
C7_TimesBounds ==
    (op = "call" /\ parser.op = "times_parser") =>
        LET m == Matches(parser.self, stream, start, parser.max, <<>>)
        IN  m.stop.kind \in {"none", "return"} =>
                IF m.k >= parser.min
                THEN out = Ret(TRUE, m.end, ListV(m.values))
                ELSE out = Ret(FALSE, m.stop.index, m.stop.value)

\* more matches than required, fewer than allowed, and the position moved
C7_Witness ==
    /\ op = "call"
    /\ parser.op = "times_parser"
    /\ out.kind = "return"
    /\ out.status
    /\ Len(out.value.l) > parser.min
    /\ Len(out.value.l) < parser.max
    /\ out.index > start

\* C8: many(item_matcher(predicate, label)) on a stream of length N returns,
\* always with success, the items from the start index on that satisfy the
\* predicate, up to the first that does not: at most N of them, in input
\* order, with next_index where the last one ended.
C8_ManyItemsTerminates ==
    (op = "call" /\ parser.op = "many_parser" /\ parser.self.op = "item_matcher") =>
        /\ out.kind = "return"
        /\ out.status
        /\ out.value.t = "list"
        /\ Len(out.value.l) <= Len(stream)
        /\ out.index = start + Len(out.value.l)
        /\ out.index <= Len(stream)
        /\ \A j \in 1..Len(out.value.l) :
               /\ out.value.l[j] = StrV(<<stream[start + j]>>)
               /\ Pred(parser.self.fn, stream[start + j])
        /\ out.index < Len(stream) => ~Pred(parser.self.fn, stream[out.index + 1])

\* several items collected, and the stream goes on after them
C8_Witness ==
    /\ op = "call"
    /\ parser.op = "many_parser"
    /\ parser.self.op = "item_matcher"
    /\ out.kind = "return"
    /\ Len(out.value.l) >= 2
    /\ out.index < Len(stream)

\* C9 as stated: line_info_at("foo\nbar", 5) is (line 1, column 0).
C9_FooBarColumnZero ==
    (op = "line_info_at" /\ stream = FooBar /\ start = 5) =>
        out = [kind |-> "value", value |-> TupleV(<<IntV(1), IntV(0)>>)]

\* C9 amended: line_info_at("foo\nbar", 5) is (line 1, column 1): the
\* newline is at index 3, and the column is 5 - 1 - 3.
C9_FooBarColumnOne ==
    (op = "line_info_at" /\ stream = FooBar /\ start = 5) =>
        out = [kind |-> "value", value |-> TupleV(<<IntV(1), IntV(1)>>)]

C9_Witness ==
    /\ op = "line_info_at"
    /\ stream = FooBar
    /\ start = 5
    /\ out.kind = "value"

\* C10: a parser built from the primitives by the combinators, invoked at
\* an index i within the stream, gives on success a next_index with
\* i <= next_index <= len(stream); success(v), index, line_info and eof
\* give next_index = i.
C10_NextIndexInRange ==
    (op = "call" /\ out.kind = "return" /\ out.status) =>
        /\ start <= out.index
        /\ out.index <= Len(stream)
        /\ parser.op \in {"success", "index", "line_info", "eof"} => out.index = start

C10_Witness ==
    /\ op = "call"
    /\ depth = MaxDepth
    /\ out.kind = "return"
    /\ out.status
    /\ out.index > start
    /\ out.index = Len(stream)

====
